---------------------------- MODULE Spec2Model ----------------------------
(***************************************************************************)
(* Model of apple_health_xml_convert.py: the pre-processing of the export  *)
(* text (strip_dtd, strip_invisible_character), the flattening of the      *)
(* element tree into a table (xml_to_csv), the CSV writer (save_to_csv)    *)
(* and the control flow of main.                                           *)
(*                                                                         *)
(* Strings are sequences of tokens.  A token stands for a fixed piece of   *)
(* text ("<!DOCTYPE", "HKQuantity", "TypeIdentifier", ...); the tokens are *)
(* chosen so that no token is a prefix of another and so that a searched   *)
(* pattern can only occur aligned with token boundaries.  Searching,       *)
(* slicing, replacing and comparing the token sequences then behaves as    *)
(* the same operation on the concatenated text.                            *)
(***************************************************************************)
EXTENDS Integers, Sequences, FiniteSets, TLC

VARIABLES
    pc,          \* position of the running function
    args,        \* the argparse namespace of main
    fs,          \* the filesystem before the run: which inputs exist
    xml_string,  \* the text being pre-processed
    input,       \* the text as it was handed to pre_process
    tree,        \* the children of the parsed root element
    health_df,   \* the DataFrame built by xml_to_csv
    files,       \* the files written so far
    stages       \* the stages of the conversion performed so far, in order

vars == <<pc, args, fs, xml_string, input, tree, health_df, files, stages>>

-----------------------------------------------------------------------------
(* Bounds of the model *)

MaxXmlLen == 4

MaxRecords == 2

MaxEntries == 2

MaxTypeLen == 4

-----------------------------------------------------------------------------
(* Generic helpers *)

SeqUpTo(S, n) == UNION { [1..k -> S] : k \in 0..n }

Range(s) == { s[i] : i \in DOMAIN s }

(* s[a:] of Python, a >= 0 *)
SliceFrom(s, a) == SubSeq(s, a + 1, Len(s))

(* s[:b] of Python, b >= 0 *)
SliceTo(s, b) == SubSeq(s, 1, IF b > Len(s) THEN Len(s) ELSE b)

IsPrefix(p, s) == Len(p) <= Len(s) /\ SubSeq(s, 1, Len(p)) = p

(* The 0-based offsets at which pat occurs in s *)
Occurrences(s, pat) ==
    { i \in 0..(Len(s) - Len(pat)) : SubSeq(s, i + 1, i + Len(pat)) = pat }

Contains(s, pat) == Occurrences(s, pat) # {}

Min(S) == CHOOSE x \in S : \A y \in S : x <= y

(* re.search(pat, s).span() for a literal pattern; the match must exist *)
SearchSpan(pat, s) ==
    LET i == Min(Occurrences(s, pat)) IN <<i, i + Len(pat)>>

(* str.replace(old, new): leftmost, non-overlapping, one pass *)
RECURSIVE str_replace(_, _, _)
str_replace(s, old, new) ==
    IF Len(s) = 0 THEN <<>>
    ELSE IF IsPrefix(old, s)
         THEN new \o str_replace(SliceFrom(s, Len(old)), old, new)
         ELSE <<Head(s)>> \o str_replace(Tail(s), old, new)

-----------------------------------------------------------------------------
(* pre_process *)

DOCTYPE == <<"<!DOCTYPE">>
DTD_END == <<"]>">>
VT      == <<"\\x0b">>

(* re.search returns None when the pattern is absent: .span() raises *)
strip_dtd_raises(s) == ~Contains(s, DOCTYPE) \/ ~Contains(s, DTD_END)

strip_dtd(s) ==
    LET start_strip == SearchSpan(DOCTYPE, s)[1]
        end_strip   == SearchSpan(DTD_END, s)[2]
    IN  SliceTo(s, start_strip) \o SliceFrom(s, end_strip)

strip_invisible_character(s) == str_replace(s, VT, <<>>)

pre_process(s) == strip_invisible_character(strip_dtd(s))

-----------------------------------------------------------------------------
(* xml_to_csv: the element tree *)

(* An element is [attrib |-> <<name, value>> pairs in document order,      *)
(* children |-> its child elements].  A dict is the sequence of its items  *)
(* in insertion order, with distinct keys.                                 *)

Element(attrib, children) == [attrib |-> attrib, children |-> children]

Keys(d) == [i \in DOMAIN d |-> d[i][1]]

Values(d) == [i \in DOMAIN d |-> d[i][2]]

HasKey(d, k) == \E i \in DOMAIN d : d[i][1] = k

Get(d, k) == d[CHOOSE i \in DOMAIN d : d[i][1] = k][2]

(* Mutant of DictUpdate: dict.setdefault, an existing key keeps its value *)
DictSetDefault(d, k, v) == IF HasKey(d, k) THEN d ELSE Append(d, <<k, v>>)

(* dict.update({k: v}): an existing key keeps its place and takes v *)
DictUpdate(d, k, v) ==
    IF HasKey(d, k)
    THEN [i \in DOMAIN d |-> IF d[i][1] = k THEN <<k, v>> ELSE d[i]]
    ELSE Append(d, <<k, v>>)

(* Mutant of MergeEntries: the merged dict is assigned to child_attrib      *)
(* instead of updating it                                                  *)
RECURSIVE MergeEntriesAssigned(_, _)
MergeEntriesAssigned(child_attrib, entries) ==
    IF entries = <<>> THEN child_attrib
    ELSE LET metadata_values == Values(Head(entries).attrib)
         IN  MergeEntriesAssigned(
                 IF Len(metadata_values) = 2
                 THEN <<<<metadata_values[1], metadata_values[2]>>>>
                 ELSE child_attrib,
                 Tail(entries))

(* Lines 74-79: the attributes of one record after its direct children    *)
(* with exactly two attribute values have been merged in, in order.       *)
RECURSIVE MergeEntries(_, _)
MergeEntries(child_attrib, entries) ==
    IF entries = <<>> THEN child_attrib
    ELSE LET metadata_values == Values(Head(entries).attrib)
         IN  MergeEntries(
                 IF Len(metadata_values) = 2
                 THEN DictUpdate(child_attrib, metadata_values[1], metadata_values[2])
                 ELSE child_attrib,
                 Tail(entries))

(* Mutant of Flatten: the append of line 81 inside the loop over the       *)
(* children, one row per child of a record                                 *)
FlattenAppendingPerEntry(root) ==
    LET Copies(n, x) == [e \in 1..n |-> x]
        Rec(k) == Copies(Len(root[k].children), MergeEntries(root[k].attrib, root[k].children))
        F[k \in 0..Len(root)] == IF k = 0 THEN <<>> ELSE F[k - 1] \o Rec(k)
    IN  F[Len(root)]

(* Lines 71-81: attribute_list *)
Flatten(root) == [i \in DOMAIN root |-> MergeEntries(root[i].attrib, root[i].children)]

-----------------------------------------------------------------------------
(* xml_to_csv: the DataFrame *)

(* A DataFrame is [columns |-> labels, index |-> row labels, data |-> rows *)
(* of cells by column position].  NaN is the missing cell; it is no string *)
(* of the input alphabet.                                                  *)

NaN == <<"float(nan)">>

RECURSIVE Dedup(_)
Dedup(s) ==
    IF s = <<>> THEN <<>>
    ELSE LET init == Dedup(SubSeq(s, 1, Len(s) - 1))
             last == s[Len(s)]
         IN  IF last \in Range(init) THEN init ELSE Append(init, last)

RECURSIVE Concat(_)
Concat(ss) == IF ss = <<>> THEN <<>> ELSE Head(ss) \o Concat(Tail(ss))

(* pd.DataFrame(list of dicts): the columns are the keys in order of first *)
(* appearance, a key missing from a dict gives NaN.                        *)
DataFrame(attribute_list) ==
    LET cols == Dedup(Concat([i \in DOMAIN attribute_list |-> Keys(attribute_list[i])]))
    IN  [columns |-> cols,
         index   |-> [i \in DOMAIN attribute_list |-> i - 1],
         data    |-> [i \in DOMAIN attribute_list |->
                        [j \in DOMAIN cols |->
                            IF HasKey(attribute_list[i], cols[j])
                            THEN Get(attribute_list[i], cols[j])
                            ELSE NaN]]]

ColumnPositions(df, label) == { j \in DOMAIN df.columns : df.columns[j] = label }

HasColumn(df, label) == ColumnPositions(df, label) # {}

(* The cell of row position i under a label that names one column *)
Cell(df, i, label) == df.data[i][CHOOSE j \in DOMAIN df.columns : df.columns[j] = label]

HKQuantityTypeIdentifier       == <<"HKQuantity", "TypeIdentifier">>
HKCategoryTypeIdentifier       == <<"HKCategory", "TypeIdentifier">>
HKCharacteristicTypeIdentifier == <<"HKCharacteristic", "TypeIdentifier">>

TYPE == <<"type">>

(* Series.str.replace: NaN stays NaN *)
SeriesStrReplace(cell, old, new) ==
    IF cell = NaN THEN NaN ELSE str_replace(cell, old, new)

(* Lines 87-88 raise AttributeError when no column is named type *)
strip_identifiers_raises(df) == ~HasColumn(df, TYPE)

(* Mutant of StripTypeColumn: line 88 left out *)
StripTypeColumnQuantityOnly(df) ==
    [df EXCEPT !.data =
        [i \in DOMAIN df.data |->
            [j \in DOMAIN df.columns |->
                IF df.columns[j] = TYPE
                THEN SeriesStrReplace(df.data[i][j], HKQuantityTypeIdentifier, <<>>)
                ELSE df.data[i][j]]]]

(* Lines 87-88: both replacements on the column type *)
StripTypeColumn(df) ==
    [df EXCEPT !.data =
        [i \in DOMAIN df.data |->
            [j \in DOMAIN df.columns |->
                IF df.columns[j] = TYPE
                THEN SeriesStrReplace(
                         SeriesStrReplace(df.data[i][j], HKQuantityTypeIdentifier, <<>>),
                         HKCategoryTypeIdentifier, <<>>)
                ELSE df.data[i][j]]]]

(* Lines 89-90: the replacement on the column labels *)
RenameColumns(df) ==
    [df EXCEPT !.columns =
        [j \in DOMAIN df.columns |->
            str_replace(df.columns[j], HKCharacteristicTypeIdentifier, <<>>)]]

(* Lines 85-90 *)
strip_identifiers(df) == RenameColumns(StripTypeColumn(df))

-----------------------------------------------------------------------------
(* xml_to_csv: reordering the columns *)

SOURCE_NAME   == <<"sourceName">>
VALUE         == <<"value">>
UNIT          == <<"unit">>
START_DATE    == <<"startDate">>
END_DATE      == <<"endDate">>
CREATION_DATE == <<"creationDate">>

ProgrammedTempBasalRate == <<"com.loopkit.InsulinKit.MetadataKeyProgrammedTempBasalRate">>
ScheduledBasalRate      == <<"com.loopkit.InsulinKit.MetadataKeyScheduledBasalRate">>
AbsorptionTimeMinutes   == <<"com.loudnate.CarbKit.HKMetadataKey.AbsorptionTimeMinutes">>

(* Lines 94-100 *)
BaseShiftedCols ==
    <<TYPE, SOURCE_NAME, VALUE, UNIT, START_DATE, END_DATE, CREATION_DATE>>

(* Lines 103-113, in the order of the three tests *)
LoopCols == <<ProgrammedTempBasalRate, ScheduledBasalRate, AbsorptionTimeMinutes>>

AppendIfIn(shifted, label, original_cols) ==
    IF label \in Range(original_cols) THEN Append(shifted, label) ELSE shifted

(* Mutant of ShiftedCols: the loop columns appended without the tests *)
ShiftedColsUntested(original_cols) == BaseShiftedCols \o LoopCols

(* Lines 94-113 *)
ShiftedCols(original_cols) ==
    AppendIfIn(
        AppendIfIn(
            AppendIfIn(BaseShiftedCols, LoopCols[1], original_cols),
            LoopCols[2], original_cols),
        LoopCols[3], original_cols)

(* The orders in which a set can be listed *)
Orderings(S) ==
    { f \in [1..Cardinality(S) -> S] : \A i, j \in DOMAIN f : i # j => f[i] # f[j] }

(* Line 115: list(set(original_cols) - set(shifted_cols)); the order of a  *)
(* listed set of strings is not fixed (it changes with the hash seed)      *)
RemainingCols(original_cols) ==
    Orderings(Range(original_cols) \ Range(ShiftedCols(original_cols)))

(* Mutant of reindex_raises: the columns taken without the test for        *)
(* duplicate labels                                                        *)
reindex_never_raises(df) == FALSE

(* DataFrame.reindex raises ValueError on an axis with duplicate labels *)
reindex_raises(df) ==
    \E i, j \in DOMAIN df.columns : i # j /\ df.columns[i] = df.columns[j]

(* DataFrame.reindex(labels, axis='columns'): a new label gives NaN *)
reindex(df, labels) ==
    [df EXCEPT
        !.columns = labels,
        !.data = [i \in DOMAIN df.data |->
                    [j \in DOMAIN labels |->
                        IF HasColumn(df, labels[j]) THEN Cell(df, i, labels[j]) ELSE NaN]]]

(* Lines 93-117, for one listing of the remaining columns *)
reorder_columns(df, remaining_cols) ==
    reindex(df, ShiftedCols(df.columns) \o remaining_cols)

-----------------------------------------------------------------------------
(* xml_to_csv: sorting *)

(* The tokens in the order of their text (by code point).  No token is a   *)
(* prefix of another, so comparing token by token compares the texts.      *)
CodePointOrder ==
    <<"2020-01-01 08:00:00 +0000",
      "2020-01-01 09:00:00 +0200",
      "2020-01-01 10:00:00 +0000",
      "60", "72",
      "HKCategory", "HKCharacteristic", "HKQuantity", "HeartRate", "TypeIdentifier">>

Rank(token) == CHOOSE r \in DOMAIN CodePointOrder : CodePointOrder[r] = token

(* a < b for Python strings *)
RECURSIVE StrLess(_, _)
StrLess(a, b) ==
    IF b = <<>> THEN FALSE
    ELSE IF a = <<>> THEN TRUE
    ELSE IF Head(a) = Head(b) THEN StrLess(Tail(a), Tail(b))
    ELSE Rank(Head(a)) < Rank(Head(b))

(* sort_values(by, ascending=False): the rows with a key come first, from  *)
(* the greatest key down, the rows with NaN last; the default sort is not  *)
(* stable, so rows with equal keys may come in any order.  An order is the *)
(* sequence of old row positions.                                          *)
SortOrders(df, by) ==
    { p \in Orderings(DOMAIN df.data) :
        \A i, j \in DOMAIN p :
            i < j =>
                LET a == Cell(df, p[i], by)
                    b == Cell(df, p[j], by)
                IN  /\ a = NaN => b = NaN
                    /\ (a # NaN /\ b # NaN) => ~StrLess(a, b) }

TakeRows(df, p) ==
    [df EXCEPT
        !.index = [i \in DOMAIN p |-> df.index[p[i]]],
        !.data  = [i \in DOMAIN p |-> df.data[p[i]]]]

(* Line 120 *)
sort_values(df, p) == TakeRows(df, p)

(* Lines 69-124: what xml_to_csv can return for a root; nothing when it raises *)
xml_to_csv(root) ==
    LET df0 == DataFrame(Flatten(root))
        df1 == strip_identifiers(df0)
    IN  IF strip_identifiers_raises(df0) \/ reindex_raises(df1) THEN {}
        ELSE UNION { { sort_values(reorder_columns(df1, r), p) :
                         p \in SortOrders(reorder_columns(df1, r), START_DATE) } :
                     r \in RemainingCols(df1.columns) }

-----------------------------------------------------------------------------
(* The element trees the conversion is run on *)

Attr(name, value) == <<name, value>>

HeartRateType == <<"HKQuantity", "TypeIdentifier", "HeartRate">>

DATE_OF_BIRTH == <<"DateOfBirth">>

DEVICE == <<"device">>

(* The attribute of the Me element of an export *)
CharacteristicDateOfBirth == HKCharacteristicTypeIdentifier \o DATE_OF_BIRTH

Dates ==
    { <<"2020-01-01 08:00:00 +0000">>,
      <<"2020-01-01 09:00:00 +0200">>,
      <<"2020-01-01 10:00:00 +0000">> }

CellValues == { <<"60">>, <<"72">> }

(* A child element with the given attribute values and no children *)
Entry(values) ==
    Element([i \in DOMAIN values |-> Attr(<<"key", "value", "unit">>[i], values[i])], <<>>)

(* Plain records: heart rate samples with or without a start date, the    *)
(* ExportDate element (no type), a carbohydrate sample with two metadata   *)
(* entries.                                                                *)
SimpleRecords ==
    { Element(<<Attr(TYPE, HeartRateType), Attr(START_DATE, d), Attr(VALUE, <<"60">>)>>, <<>>) :
        d \in Dates }
    \cup
    { Element(<<Attr(TYPE, HeartRateType), Attr(VALUE, <<"72">>), Attr(DEVICE, <<"60">>)>>, <<>>),
      Element(<<Attr(VALUE, <<"2020-01-01 10:00:00 +0000">>)>>, <<>>),
      Element(<<Attr(TYPE, HKQuantityTypeIdentifier), Attr(START_DATE, <<"2020-01-01 08:00:00 +0000">>)>>,
              <<Entry(<<AbsorptionTimeMinutes, <<"60">>>>),
                Entry(<<ScheduledBasalRate, <<"72">>>>)>>) }

CompanionRecords ==
    { Element(<<Attr(TYPE, HeartRateType),
                Attr(START_DATE, <<"2020-01-01 09:00:00 +0200">>),
                Attr(DEVICE, <<"60">>)>>, <<>>),
      Element(<<Attr(TYPE, HKQuantityTypeIdentifier), Attr(START_DATE, <<"2020-01-01 08:00:00 +0000">>)>>,
              <<Entry(<<AbsorptionTimeMinutes, <<"60">>>>),
                Entry(<<ScheduledBasalRate, <<"72">>>>)>>) }

(* Records that differ in their type only *)
TypeTokens == {"HKQuantity", "HKCategory", "TypeIdentifier", "HeartRate"}

TypeRecords ==
    { Element(<<Attr(TYPE, t), Attr(START_DATE, <<"2020-01-01 10:00:00 +0000">>)>>, <<>>) :
        t \in SeqUpTo(TypeTokens, MaxTypeLen) }

(* Records with nested entries: two-attribute entries over a few keys, one *)
(* of them the name of a record attribute; an entry keyed type and one     *)
(* whose key carries the characteristic identifier; entries with no, one   *)
(* and three attributes; an entry whose own child has two attributes.      *)
EntryKeys == { VALUE, ProgrammedTempBasalRate, DATE_OF_BIRTH }

Entries ==
    { Entry(<<k, v>>) : k \in EntryKeys, v \in CellValues }
    \cup
    { Entry(<<TYPE, HKCategoryTypeIdentifier \o <<"HeartRate">>>>),
      Entry(<<HKCharacteristicTypeIdentifier \o DEVICE, <<"72">>>>),
      Entry(<<>>),
      Entry(<<ProgrammedTempBasalRate>>),
      Entry(<<DATE_OF_BIRTH, <<"60">>, <<"72">>>>),
      Element(<<>>, <<Entry(<<ProgrammedTempBasalRate, <<"72">>>>)>>) }

RecordAttribs ==
    { <<Attr(TYPE, HeartRateType)>>,
      <<Attr(TYPE, HKCategoryTypeIdentifier \o <<"HeartRate">>), Attr(VALUE, <<"60">>)>>,
      <<Attr(CharacteristicDateOfBirth, <<"72">>)>>,
      <<Attr(TYPE, HeartRateType), Attr(VALUE, <<"72">>), Attr(CharacteristicDateOfBirth, <<"60">>)>> }

EntryRecords ==
    { Element(a, es) : a \in RecordAttribs, es \in SeqUpTo(Entries, MaxEntries) }

Trees ==
    SeqUpTo(SimpleRecords, MaxRecords)
    \cup
    { <<r>> \o cs : r \in TypeRecords \cup EntryRecords,
                    cs \in SeqUpTo(CompanionRecords, MaxRecords - 1) }

EmptyFrame == [columns |-> <<>>, index |-> <<>>, data |-> <<>>]

NoArgs == [file |-> "", output |-> "", quiet |-> FALSE, debug |-> FALSE, skip |-> FALSE]

-----------------------------------------------------------------------------
(* pre_process, step by step, on any text *)

XmlTokens == {"<!DOCTYPE", "]>", "\\x0b", "<HealthData/>"}

InitPre ==
    /\ pc = "pre_process"
    /\ input \in SeqUpTo(XmlTokens, MaxXmlLen)
    /\ xml_string = input
    /\ args = NoArgs
    /\ fs = {}
    /\ tree = <<>>
    /\ health_df = EmptyFrame
    /\ files = {}
    /\ stages = <<>>

(* Line 42 *)
PreStripDtd ==
    /\ pc = "pre_process"
    /\ IF strip_dtd_raises(xml_string)
       THEN pc' = "raised" /\ UNCHANGED xml_string
       ELSE pc' = "strip_invisible_character" /\ xml_string' = strip_dtd(xml_string)
    /\ UNCHANGED <<args, fs, input, tree, health_df, files, stages>>

(* Lines 43-46 *)
PreStripInvisible ==
    /\ pc = "strip_invisible_character"
    /\ xml_string' = strip_invisible_character(xml_string)
    /\ pc' = "returned"
    /\ UNCHANGED <<args, fs, input, tree, health_df, files, stages>>

NextPre == PreStripDtd \/ PreStripInvisible

SpecPre == InitPre /\ [][NextPre]_vars

-----------------------------------------------------------------------------
(* xml_to_csv, step by step, on any tree *)

InitXml ==
    /\ pc = "xml_to_csv"
    /\ tree \in Trees
    /\ health_df = EmptyFrame
    /\ input = <<>>
    /\ xml_string = <<>>
    /\ args = NoArgs
    /\ fs = {}
    /\ files = {}
    /\ stages = <<>>

(* Lines 69-83 *)
XmlFlatten ==
    /\ pc = "xml_to_csv"
    /\ health_df' = DataFrame(Flatten(tree))
    /\ pc' = "strip_identifiers"
    /\ stages' = Append(stages, "flatten")
    /\ UNCHANGED <<args, fs, xml_string, input, tree, files>>

(* Lines 85-90 *)
XmlStripIdentifiers ==
    /\ pc = "strip_identifiers"
    /\ IF strip_identifiers_raises(health_df)
       THEN pc' = "raised" /\ UNCHANGED health_df
       ELSE pc' = "reorder_columns" /\ health_df' = strip_identifiers(health_df)
    /\ UNCHANGED <<args, fs, xml_string, input, tree, files, stages>>

(* Lines 92-117 *)
XmlReorder ==
    /\ pc = "reorder_columns"
    /\ IF reindex_raises(health_df)
       THEN pc' = "raised" /\ UNCHANGED <<health_df, stages>>
       ELSE /\ \E r \in RemainingCols(health_df.columns) :
                  health_df' = reorder_columns(health_df, r)
            /\ pc' = "sort_values"
            /\ stages' = Append(stages, "reorder columns")
    /\ UNCHANGED <<args, fs, xml_string, input, tree, files>>

(* Lines 119-124 *)
XmlSort ==
    /\ pc = "sort_values"
    /\ \E p \in SortOrders(health_df, START_DATE) : health_df' = sort_values(health_df, p)
    /\ pc' = "returned"
    /\ stages' = Append(stages, "sort")
    /\ UNCHANGED <<args, fs, xml_string, input, tree, files>>

NextXml == XmlFlatten \/ XmlStripIdentifiers \/ XmlReorder \/ XmlSort

SpecXml == InitXml /\ [][NextXml]_vars

-----------------------------------------------------------------------------
(* main *)

ROOT == <<"<HealthData/>">>

(* ET.fromstring raises ParseError unless the text is one root element,    *)
(* alone or after a well-formed document type declaration                  *)
fromstring_raises(s) == s \notin { ROOT, DOCTYPE \o DTD_END \o ROOT }

Today == "2026-11-01"

(* Lines 131-132 *)
save_to_csv_path(csvpath) == <<csvpath, "/apple_health_export_", Today, ".csv">>

(* Line 271 *)
skip_csv_path(output) == <<output, "/apple_health_export", ".csv">>

(* Line 350 *)
boxplots_pdf_path(output) == <<output, "/blood_pressure_boxplots.pdf">>

(* Mutant of charts_pdf_path: the second report written under another name *)
charts_pdf_path_renamed(output) == <<output, "/blood_pressure_charts.pdf">>

(* Line 376 *)
charts_pdf_path(output) == <<output, "/blood_pressure_charts_and_boxplots.pdf">>

ExportTexts ==
    { DOCTYPE \o DTD_END \o ROOT,
      DOCTYPE \o VT \o DTD_END \o ROOT,
      DTD_END \o DOCTYPE \o DTD_END \o ROOT,
      ROOT }

ExportTrees ==
    { <<>>,
      <<Element(<<Attr(TYPE, HeartRateType), Attr(START_DATE, <<"2020-01-01 08:00:00 +0000">>)>>,
                <<Entry(<<DEVICE, <<"60">>>>)>>)>> }

PipelineStages ==
    <<"read file", "pre-process", "parse", "flatten", "reorder columns", "sort", "write CSV">>

(* Lines 139-160: the namespace parsed from the command line.  fs holds    *)
(* the paths that exist before the run; the export, when it exists, has    *)
(* the text input and the records tree.                                    *)
Init ==
    /\ pc = "main"
    /\ args \in [file : {"export.xml"}, output : {".", "reports"},
                 quiet : BOOLEAN, debug : BOOLEAN, skip : BOOLEAN]
    /\ fs \in SUBSET { <<args.file>>, skip_csv_path(args.output) }
    /\ input \in ExportTexts
    /\ tree \in ExportTrees
    /\ xml_string = <<>>
    /\ health_df = EmptyFrame
    /\ files = {}
    /\ stages = <<>>

(* Lines 258-275: without --skip the else branch of "if args.skip" exits *)
MainArgs ==
    /\ pc = "main"
    /\ pc' = IF args.skip THEN "convert" ELSE "exited"
    /\ UNCHANGED <<args, fs, xml_string, input, tree, health_df, files, stages>>

(* Lines 277-283: read, pre_process, xml_to_csv, save_to_csv *)
MainConvert ==
    /\ pc = "convert"
    /\ IF args.skip
       THEN /\ pc' = "read_csv"
            /\ UNCHANGED <<xml_string, health_df, files, stages>>
       ELSE IF <<args.file>> \notin fs
       THEN /\ pc' = "raised"
            /\ UNCHANGED <<xml_string, health_df, files, stages>>
       ELSE IF strip_dtd_raises(input)
       THEN /\ pc' = "raised"
            /\ xml_string' = input
            /\ stages' = SubSeq(PipelineStages, 1, 1)
            /\ UNCHANGED <<health_df, files>>
       ELSE IF fromstring_raises(pre_process(input))
       THEN /\ pc' = "raised"
            /\ xml_string' = pre_process(input)
            /\ stages' = SubSeq(PipelineStages, 1, 2)
            /\ UNCHANGED <<health_df, files>>
       ELSE IF xml_to_csv(tree) = {}
       THEN /\ pc' = "raised"
            /\ xml_string' = pre_process(input)
            /\ stages' = SubSeq(PipelineStages, 1, 4)
            /\ UNCHANGED <<health_df, files>>
       ELSE /\ pc' = "read_csv"
            /\ xml_string' = pre_process(input)
            /\ health_df' \in xml_to_csv(tree)
            /\ files' = files \cup {save_to_csv_path(args.output)}
            /\ stages' = PipelineStages
    /\ UNCHANGED <<args, fs, input, tree>>

(* Line 285: the path read is the one written, or with --skip the one of line 271 *)
MainReadCsv ==
    /\ pc = "read_csv"
    /\ LET csvpath == IF args.skip THEN skip_csv_path(args.output)
                                   ELSE save_to_csv_path(args.output)
       IN  pc' = IF csvpath \in fs \cup files THEN "analyse" ELSE "raised"
    /\ UNCHANGED <<args, fs, xml_string, input, tree, health_df, files, stages>>

(* Lines 289-346: filtering, merging and plotting on screen; raises on a   *)
(* table without the columns or the samples it needs                       *)
MainAnalyse ==
    /\ pc = "analyse"
    /\ \E ok \in BOOLEAN : pc' = IF ok THEN "boxplots_pdf" ELSE "raised"
    /\ UNCHANGED <<args, fs, xml_string, input, tree, health_df, files, stages>>

(* Lines 349-372: the file is there once a page is saved, or as soon as    *)
(* PdfPages is constructed                                                 *)
MainBoxplotsPdf ==
    /\ pc = "boxplots_pdf"
    /\ \E written, ok \in BOOLEAN :
          /\ ok => written
          /\ files' = IF written THEN files \cup {boxplots_pdf_path(args.output)} ELSE files
          /\ pc' = IF ok THEN "charts_pdf" ELSE "raised"
    /\ UNCHANGED <<args, fs, xml_string, input, tree, health_df, stages>>

(* Lines 375-410 *)
MainChartsPdf ==
    /\ pc = "charts_pdf"
    /\ \E written, ok \in BOOLEAN :
          /\ ok => written
          /\ files' = IF written THEN files \cup {charts_pdf_path(args.output)} ELSE files
          /\ pc' = IF ok THEN "returned" ELSE "raised"
    /\ UNCHANGED <<args, fs, xml_string, input, tree, health_df, stages>>

Next ==
    MainArgs \/ MainConvert \/ MainReadCsv \/ MainAnalyse \/ MainBoxplotsPdf \/ MainChartsPdf

Spec == Init /\ [][Next]_vars

-----------------------------------------------------------------------------
(* Properties of main *)

Terminated == pc \in {"exited", "raised", "returned"}

(* An export that exists and that the conversion accepts *)
ConvertibleExport ==
    /\ <<args.file>> \in fs
    /\ ~strip_dtd_raises(input)
    /\ ~fromstring_raises(pre_process(input))
    /\ xml_to_csv(tree) # {}

(* C1: a run of main on an input file without --skip performs read file,   *)
(* pre-process, parse and flatten, reorder columns, sort, write CSV, each  *)
(* once and in this order, and does not end before the CSV is written.     *)
C1_PipelineRunsToCsv ==
    (Terminated /\ ~args.skip /\ ConvertibleExport) =>
        /\ stages = PipelineStages
        /\ save_to_csv_path(args.output) \in files

(* C7 as stated: on every run of main, whatever the flags, the files       *)
(* written are at most the single CSV of save_to_csv.                      *)
C7_OnlyCsvWritten == files \subseteq {save_to_csv_path(args.output)}

(* C7: on every run of main, whatever the flags, the files written are at  *)
(* most the CSV of save_to_csv and the two PDF reports                     *)
(* blood_pressure_boxplots.pdf and blood_pressure_charts_and_boxplots.pdf  *)
(* in the output directory, and no other file.                             *)
C7_OnlyCsvAndReportsWritten ==
    files \subseteq { save_to_csv_path(args.output),
                      <<args.output, "/blood_pressure_boxplots.pdf">>,
                      <<args.output, "/blood_pressure_charts_and_boxplots.pdf">> }

C7_Witness ==
    /\ pc = "returned"
    /\ Cardinality(files) = 2
    /\ <<args.output, "/blood_pressure_boxplots.pdf">> \in files

-----------------------------------------------------------------------------
(* Properties of pre_process *)

FirstOccurrence(s, pat) == Min(Occurrences(s, pat))

(* A '<!DOCTYPE' with a ']>' somewhere after it *)
HasTerminatedDoctype(s) ==
    \E i \in Occurrences(s, DOCTYPE) : \E j \in Occurrences(s, DTD_END) : i < j

(* C8: for every input with a '<!DOCTYPE' declaration terminated by ']>',  *)
(* the text returned by pre_process contains neither '<!DOCTYPE' nor the   *)
(* character \x0b.                                                         *)
C8_PreProcessRemovesHazards ==
    (pc = "returned" /\ HasTerminatedDoctype(input)) =>
        /\ ~Contains(xml_string, DOCTYPE)
        /\ ~Contains(xml_string, VT)

(* The input without the text from offset a up to offset b (exclusive) *)
WithoutSpan(s, a, b) == SubSeq(s, 1, a) \o SubSeq(s, b + 1, Len(s))

(* C9: for every input with '<!DOCTYPE' and at least one ']>', strip_dtd   *)
(* returns the input without the text from the first '<!DOCTYPE' up to and *)
(* including the first ']>' after it, everything else kept unchanged; the  *)
(* result is never longer than the input.                                  *)
C9_StripDtdRemovesOneSpan ==
    (pc = "strip_invisible_character"
        /\ Contains(input, DOCTYPE) /\ Contains(input, DTD_END)) =>
        LET start == FirstOccurrence(input, DOCTYPE)
            ends  == { j \in Occurrences(input, DTD_END) : j > start }
        IN  /\ Len(xml_string) <= Len(input)
            /\ ends # {} => xml_string = WithoutSpan(input, start, Min(ends) + Len(DTD_END))

-----------------------------------------------------------------------------
(* Properties of xml_to_csv *)

(* The table exists: the rows have been built and nothing was raised *)
HasTable == pc \in {"strip_identifiers", "reorder_columns", "sort_values", "returned"}

(* The record (a position of the root) that the row at position i came from *)
RecordOf(i) == health_df.index[i] + 1

Rows == DOMAIN health_df.data

(* The direct children of a record that have exactly two attributes *)
PairEntries(record) ==
    { e \in DOMAIN record.children : Len(record.children[e].attrib) = 2 }

EntryKey(record, e) == record.children[e].attrib[1][2]

EntryValue(record, e) == record.children[e].attrib[2][2]

(* s with the occurrences of pat left out, scanning from offset i to the right *)
RECURSIVE WithoutOccurrences(_, _, _)
WithoutOccurrences(s, pat, i) ==
    IF i >= Len(s) THEN <<>>
    ELSE IF i \in Occurrences(s, pat) THEN WithoutOccurrences(s, pat, i + Len(pat))
    ELSE <<s[i + 1]>> \o WithoutOccurrences(s, pat, i + 1)

(* The column label that an attribute name or entry key ends up as *)
Label(name) == WithoutOccurrences(name, HKCharacteristicTypeIdentifier, 0)

(* A type value without the quantity identifiers, then without the category ones *)
Shortened(t) ==
    WithoutOccurrences(WithoutOccurrences(t, HKQuantityTypeIdentifier, 0),
                       HKCategoryTypeIdentifier, 0)

(* The cell expected under the column of name for the input value v *)
Shown(name, v) == IF name = TYPE THEN Shortened(v) ELSE v

(* C2: the table has exactly one row for each direct child of the root,    *)
(* through flattening, reordering and sorting (none dropped, none twice),  *)
(* and every row has a cell for each column of the table.                  *)
C2_OneRowPerRecord ==
    HasTable =>
        /\ Len(health_df.data) = Len(tree)
        /\ Len(health_df.index) = Len(tree)
        /\ \A k \in DOMAIN tree : Cardinality({ i \in Rows : RecordOf(i) = k }) = 1
        /\ \A i \in Rows : Len(health_df.data[i]) = Len(health_df.columns)

C2_Witness ==
    /\ pc = "returned"
    /\ Len(tree) = 2
    /\ health_df.index = <<1, 0>>
    /\ Len(tree[1].attrib) # Len(tree[2].attrib)
    /\ \E i \in Rows : Cell(health_df, i, START_DATE) = NaN

(* C3 as stated: for every record and each of its direct children with     *)
(* exactly two attributes, the row of the record holds the second value in *)
(* the column named by the first; other children, and deeper ones, change  *)
(* nothing.                                                                *)
C3_EveryPairEntryInRow ==
    pc = "returned" =>
        \A i \in Rows :
            \A e \in PairEntries(tree[RecordOf(i)]) :
                /\ HasColumn(health_df, EntryKey(tree[RecordOf(i)], e))
                /\ Cell(health_df, i, EntryKey(tree[RecordOf(i)], e))
                       = EntryValue(tree[RecordOf(i)], e)

(* The tree with only the children that have exactly two attributes, and   *)
(* nothing below them                                                      *)
PairEntriesOnly(root) ==
    [k \in DOMAIN root |->
        Element(root[k].attrib,
                SelectSeq([e \in DOMAIN root[k].children |->
                              Element(root[k].children[e].attrib, <<>>)],
                          LAMBDA c : Len(c.attrib) = 2))]

(* C3: for every record and each of its direct children with exactly two   *)
(* attributes that is the last such child of the record with its first     *)
(* value, the row of the record holds the second value (shortened as any   *)
(* type value when the column is type) in the column named by the first    *)
(* value without 'HKCharacteristicTypeIdentifier'; children with another   *)
(* number of attributes, and deeper ones, change nothing in the table.     *)
C3_LastPairEntryInRow ==
    pc = "returned" =>
        /\ \A i \in Rows :
              LET record == tree[RecordOf(i)] IN
              \A e \in PairEntries(record) :
                  (\A f \in PairEntries(record) :
                       EntryKey(record, f) = EntryKey(record, e) => f <= e)
                  => /\ HasColumn(health_df, Label(EntryKey(record, e)))
                     /\ Cell(health_df, i, Label(EntryKey(record, e)))
                            = Shown(EntryKey(record, e), EntryValue(record, e))
        /\ health_df \in xml_to_csv(PairEntriesOnly(tree))

C3_Witness ==
    /\ pc = "returned"
    /\ \E k \in DOMAIN tree :
          /\ Cardinality(PairEntries(tree[k])) = 2
          /\ \A e \in PairEntries(tree[k]) : EntryKey(tree[k], e) = DATE_OF_BIRTH
          /\ EntryValue(tree[k], 1) # EntryValue(tree[k], 2)

(* The columns of the flattened table, before reordering *)
FlattenedCols == strip_identifiers(DataFrame(Flatten(tree))).columns

(* C4: the columns of the returned table begin with type, sourceName,      *)
(* value, unit, startDate, endDate, creationDate in this order, followed   *)
(* by those of the three loop columns that occur in the flattened table,   *)
(* in their order, followed by all remaining columns.                      *)
C4_ColumnOrder ==
    pc = "returned" =>
        LET cols  == health_df.columns
            loops == SelectSeq(
                         <<ProgrammedTempBasalRate, ScheduledBasalRate, AbsorptionTimeMinutes>>,
                         LAMBDA c : c \in Range(FlattenedCols))
            first == <<TYPE, SOURCE_NAME, VALUE, UNIT, START_DATE, END_DATE, CREATION_DATE>>
            rest  == SubSeq(cols, Len(first) + Len(loops) + 1, Len(cols))
        IN  /\ Len(cols) >= Len(first) + Len(loops)
            /\ SubSeq(cols, 1, Len(first)) = first
            /\ SubSeq(cols, Len(first) + 1, Len(first) + Len(loops)) = loops
            /\ Range(rest) = Range(FlattenedCols) \ (Range(first) \cup Range(loops))
            /\ Cardinality(Range(rest)) = Len(rest)

C4_Witness ==
    /\ pc = "returned"
    /\ Len(health_df.columns) = 12
    /\ SubSeq(health_df.columns, 8, 10)
           = <<ProgrammedTempBasalRate, ScheduledBasalRate, AbsorptionTimeMinutes>>
    /\ FlattenedCols[1] = TYPE
    /\ FlattenedCols[Len(FlattenedCols)] = ScheduledBasalRate

(* The type attribute of a record without a leading identifier *)
WithoutLeadingIdentifier(t) ==
    IF IsPrefix(HKQuantityTypeIdentifier, t) THEN SliceFrom(t, Len(HKQuantityTypeIdentifier))
    ELSE IF IsPrefix(HKCategoryTypeIdentifier, t) THEN SliceFrom(t, Len(HKCategoryTypeIdentifier))
    ELSE t

(* C5 as stated: the type of every output row is the type attribute of its *)
(* record without a leading 'HKQuantityTypeIdentifier' or                  *)
(* 'HKCategoryTypeIdentifier' and otherwise unchanged, and no output type  *)
(* contains either identifier.                                             *)
C5_LeadingIdentifierRemoved ==
    pc = "returned" =>
        \A i \in Rows :
            HasKey(tree[RecordOf(i)].attrib, TYPE) =>
                /\ Cell(health_df, i, TYPE)
                       = WithoutLeadingIdentifier(Get(tree[RecordOf(i)].attrib, TYPE))
                /\ ~Contains(Cell(health_df, i, TYPE), HKQuantityTypeIdentifier)
                /\ ~Contains(Cell(health_df, i, TYPE), HKCategoryTypeIdentifier)

(* C5: the type of every output row is the type of its flattened record    *)
(* (the type attribute, or the value of the last two-attribute child keyed *)
(* type) with every occurrence of 'HKQuantityTypeIdentifier' left out, and *)
(* then every occurrence of 'HKCategoryTypeIdentifier' left out, each in   *)
(* one pass from the left, wherever it occurs and nothing else changed; a  *)
(* record without a type has none in its row.                              *)
C5_IdentifierOccurrencesRemoved ==
    pc = "returned" =>
        \A i \in Rows :
            LET record == tree[RecordOf(i)]
                keyed  == { e \in PairEntries(record) : EntryKey(record, e) = TYPE }
            IN  Cell(health_df, i, TYPE)
                    = IF keyed # {}
                      THEN Shortened(EntryValue(record, CHOOSE e \in keyed : \A f \in keyed : f <= e))
                      ELSE IF HasKey(record.attrib, TYPE)
                      THEN Shortened(Get(record.attrib, TYPE))
                      ELSE NaN

C5_Witness ==
    /\ pc = "returned"
    /\ \E i \in Rows :
          /\ HasKey(tree[RecordOf(i)].attrib, TYPE)
          /\ Get(tree[RecordOf(i)].attrib, TYPE)
                 = <<"HeartRate", "HKCategory", "HKQuantity", "TypeIdentifier">>
          /\ Cell(health_df, i, TYPE) = <<"HeartRate", "HKCategory">>

(* The instant of a start date, in minutes of the day in UTC *)
StartInstant(d) ==
    CASE d = <<"2020-01-01 08:00:00 +0000">> -> 8 * 60
      [] d = <<"2020-01-01 09:00:00 +0200">> -> 9 * 60 - 2 * 60
      [] d = <<"2020-01-01 10:00:00 +0000">> -> 10 * 60

(* C6: the rows are returned newest first: of two rows that both have a    *)
(* startDate, the one with the later start instant (the UTC offset taken   *)
(* into account) comes before the one with the earlier instant.            *)
C6_NewestFirst ==
    pc = "returned" =>
        \A i, j \in Rows :
            LET a == Cell(health_df, i, START_DATE)
                b == Cell(health_df, j, START_DATE)
            IN  (a \in Dates /\ b \in Dates /\ StartInstant(a) > StartInstant(b)) => i < j

(* C10 as stated: every attribute of a record is in the row of the record  *)
(* under its name with its value (the type shortened), whatever is nested  *)
(* in the record.                                                          *)
C10_RecordAttributesKept ==
    pc = "returned" =>
        \A i \in Rows :
            LET attrib == tree[RecordOf(i)].attrib IN
            \A a \in DOMAIN attrib :
                /\ HasColumn(health_df, attrib[a][1])
                /\ Cell(health_df, i, attrib[a][1]) = Shown(attrib[a][1], attrib[a][2])

(* C10: every attribute of a record whose name is not the first value of a *)
(* two-attribute direct child of the record is in the row of the record,   *)
(* under its name without 'HKCharacteristicTypeIdentifier', with its value *)
(* (the type shortened), whatever else is nested in the record.            *)
C10_RecordAttributesKeptUnlessKeyed ==
    pc = "returned" =>
        \A i \in Rows :
            LET record == tree[RecordOf(i)] IN
            \A a \in DOMAIN record.attrib :
                (\A e \in PairEntries(record) : EntryKey(record, e) # record.attrib[a][1])
                => /\ HasColumn(health_df, Label(record.attrib[a][1]))
                   /\ Cell(health_df, i, Label(record.attrib[a][1]))
                          = Shown(record.attrib[a][1], record.attrib[a][2])

C10_Witness ==
    /\ pc = "returned"
    /\ \E i \in Rows :
          LET record == tree[RecordOf(i)] IN
          /\ HasKey(record.attrib, CharacteristicDateOfBirth)
          /\ HasKey(record.attrib, VALUE)
          /\ \E e \in PairEntries(record) : EntryKey(record, e) = VALUE
          /\ Cell(health_df, i, DATE_OF_BIRTH) = Get(record.attrib, CharacteristicDateOfBirth)
          /\ Cell(health_df, i, VALUE) # Get(record.attrib, VALUE)

NoDuplicates(labels) == Cardinality(Range(labels)) = Len(labels)

(* C11 as stated: the column names of the returned table are those of the  *)
(* flattened table before reordering (after 'HKCharacteristicTypeIdentifier' *)
(* is removed from them), each exactly once: none introduced, dropped or   *)
(* merged.                                                                 *)
C11_ColumnsPermuted ==
    pc = "returned" =>
        /\ Range(health_df.columns) = Range(FlattenedCols)
        /\ NoDuplicates(health_df.columns)
        /\ NoDuplicates(FlattenedCols)

(* C11: the column names of the returned table are those of the flattened  *)
(* table before reordering (after 'HKCharacteristicTypeIdentifier' is      *)
(* removed from them) together with type, sourceName, value, unit,         *)
(* startDate, endDate, creationDate, each exactly once: a flattened column *)
(* is never dropped or merged, and only those of the seven names that the  *)
(* flattened table lacks are introduced.                                   *)
C11_ColumnsPermutedWithLeading ==
    pc = "returned" =>
        /\ Range(health_df.columns)
               = Range(FlattenedCols)
                     \cup {TYPE, SOURCE_NAME, VALUE, UNIT, START_DATE, END_DATE, CREATION_DATE}
        /\ NoDuplicates(health_df.columns)
        /\ NoDuplicates(FlattenedCols)

C11_Witness ==
    /\ pc = "returned"
    /\ \E j \in DOMAIN DataFrame(Flatten(tree)).columns :
          /\ DataFrame(Flatten(tree)).columns[j] = CharacteristicDateOfBirth
          /\ FlattenedCols[j] = DATE_OF_BIRTH
    /\ DATE_OF_BIRTH \in Range(health_df.columns)
    /\ DEVICE \in Range(health_df.columns)
    /\ SOURCE_NAME \notin Range(FlattenedCols)
    /\ SOURCE_NAME \in Range(health_df.columns)

=============================================================================
